---- MODULE Spec2Model ----
(***************************************************************************)
(* Model of pandas_ext/amazon_spectrum.py: the statement builders and the  *)
(* to_spectrum orchestrator, run against an external catalog.              *)
(*                                                                         *)
(* Text is a sequence of tokens.  A token is either one character of a     *)
(* caller-supplied identifier ("T", "s", ...) or one literal piece of an   *)
(* f-string template ("CREATE EXTERNAL TABLE ", "\n", ";", ...).           *)
(***************************************************************************)
EXTENDS Integers, Sequences, FiniteSets, TLC

\* Number of to_spectrum calls issued against the one catalog.
NumCalls == 2

Calls == 1..NumCalls

----------------------------------------------------------------------------
\* Generic text helpers.

\* str.lower() on one character.
LowerChar(ch) ==
    CASE ch = "B" -> "b"
      [] ch = "P" -> "p"
      [] ch = "S" -> "s"
      [] ch = "T" -> "t"
      [] ch = "V" -> "v"
      [] ch = "X" -> "x"
      [] OTHER -> ch

\* str.lower() on a text.
Lower(s) == [i \in 1..Len(s) |-> LowerChar(s[i])]

\* str.upper() on a file_format.
Upper(ff) ==
    CASE ff = "parquet" -> "PARQUET"
      [] ff = "avro" -> "AVRO"
      [] OTHER -> ff

Q == "\""

SQ == "'"

NL == "\n"

\* common.utils.today(): the current date at call time.
Today == <<"2024-01-15">>

----------------------------------------------------------------------------
\* Statement builders.

SerdeKeys == {"parquet"}

\* dict(parquet=...)[file_format]: ok = FALSE stands for the KeyError.
get_file_format_serde(file_format) ==
    IF file_format \in SerdeKeys
    THEN [ok |-> TRUE,
          value |-> "org.apache.hadoop.hive.ql.io.parquet.serde.ParquetHiveSerDe"]
    ELSE [ok |-> FALSE, value |-> ""]

create_schema_alias_statement(schema_alias, schema, table) ==
    <<"CREATE VIEW ", Q>> \o schema_alias \o <<Q, ".", Q>> \o table
        \o <<Q, " AS", NL, "SELECT * FROM ", Q>> \o schema \o <<Q, ".", Q>>
        \o table \o <<Q, NL, "WITH NO SCHEMA BINDING", ";">>

\* As PartitionPath, the .lower() left out.
PartitionPathNoLower(bucket, stream, file_format, partition, partition_value) ==
    <<"s3://">> \o bucket \o <<"/">> \o stream \o <<"/", "ext=", file_format, "/">>
        \o partition \o <<"=">> \o partition_value \o <<"/">>

\* s3_path of _create_partition_statement.
PartitionPath(bucket, stream, file_format, partition, partition_value) ==
    Lower(<<"s3://">> \o bucket \o <<"/">> \o stream
              \o <<"/", "ext=", file_format, "/">>
              \o partition \o <<"=">> \o partition_value \o <<"/">>)

create_partition_statement(schema, bucket, stream, file_format, partition, partition_value) ==
    LET pv == IF partition_value # <<>> THEN partition_value ELSE Today
        s3_path == PartitionPath(bucket, stream, file_format, partition, pv)
    IN  <<"ALTER TABLE ", Q>> \o schema \o <<Q, ".", Q>> \o stream
            \o <<"_", file_format, Q, NL, "ADD PARTITION (">> \o partition
            \o <<"=", SQ>> \o pv \o <<SQ, ")", NL, "LOCATION ", SQ>> \o s3_path
            \o <<SQ, NL, ";">>

external_table_exists_statement(schema, table) ==
    <<"SELECT distinct(schemaname || tablename) as schema_table", NL,
      "FROM SVV_EXTERNAL_COLUMNS", NL,
      "WHERE schemaname || tablename = ", SQ>> \o schema \o table \o <<SQ, NL, ";">>

\* As PartitionedBy, has_partition ignored.
PartitionedByAlways(partition, partition_type, has_partition) ==
    <<"PARTITIONED BY (">> \o partition \o <<" ">> \o partition_type \o <<")">>

\* partitioned_by of _create_external_table_statement.
PartitionedBy(partition, partition_type, has_partition) ==
    IF has_partition
    THEN <<"PARTITIONED BY (">> \o partition \o <<" ">> \o partition_type \o <<")">>
    ELSE <<>>

\* Defined only for a file_format the serde mapping holds.
create_external_table_statement(schema, table, columns, bucket, stream, file_format, partition, partition_type, has_partition) ==
    LET serde == get_file_format_serde(file_format).value
        upper_file_format == Upper(file_format)
        s3_path == Lower(<<"s3://">> \o bucket \o <<"/">> \o stream
                             \o <<"/", "ext=", file_format, "/">>)
        partitioned_by == PartitionedBy(partition, partition_type, has_partition)
    IN  <<"CREATE EXTERNAL TABLE ", Q>> \o schema \o <<Q, ".", Q>> \o table
            \o <<"_", file_format, Q, " (", NL>> \o columns \o <<NL, ")", NL>>
            \o partitioned_by
            \o <<NL, "ROW FORMAT SERDE ", SQ, serde, SQ, NL,
                 "STORED AS ", upper_file_format, NL,
                 "LOCATION ", SQ>> \o s3_path \o <<SQ, NL, ";">>

\* As JoinStatements, the partition statement joined first.
JoinPartitionFirst(external_table_statement, alias_statement, partition_statement) ==
    partition_statement \o external_table_statement \o alias_statement

\* ''.join([external_table_statement, alias_statement, partition_statement])
JoinStatements(external_table_statement, alias_statement, partition_statement) ==
    external_table_statement \o alias_statement \o partition_statement

----------------------------------------------------------------------------
\* The catalog behind the connection: what pd.read_sql_query and
\* engine.execute do with the texts to_spectrum sends.

\* The statements of a text, split at each ";".
RECURSIVE SplitStatements(_)
SplitStatements(text) ==
    IF text = <<>> THEN <<>>
    ELSE LET semis == {i \in 1..Len(text) : text[i] = ";"}
         IN  IF semis = {} THEN <<text>>
             ELSE LET i == CHOOSE k \in semis : \A j \in semis : k <= j
                  IN  <<SubSeq(text, 1, i - 1)>>
                          \o SplitStatements(SubSeq(text, i + 1, Len(text)))

\* The text between the n-th pair of delimiter tokens d.
Delimited(stmt, d, n) ==
    LET pos == {i \in 1..Len(stmt) : stmt[i] = d}
        nth(k) == CHOOSE i \in pos : Cardinality({j \in pos : j < i}) = k - 1
    IN  SubSeq(stmt, nth(2 * n - 1) + 1, nth(2 * n) - 1)

\* "<schema>"."<name>" of a DDL statement, as <<schema, name>>.
Target(stmt) == <<Delimited(stmt, Q, 1), Delimited(stmt, Q, 2)>>

\* (<col>='<value>') of an ADD PARTITION statement.
PartitionKey(stmt) ==
    LET open == CHOOSE i \in 1..Len(stmt) : stmt[i] = "ADD PARTITION ("
        close == CHOOSE i \in 1..Len(stmt) : i > open /\ stmt[i] = ")"
    IN  SubSeq(stmt, open + 1, close - 1)

\* One statement against the catalog db.  strict: the warehouse answers an
\* object-creation conflict with an error (otherwise with a no-op).
\* missing: an ALTER TABLE ran against a table the catalog does not hold.
RunStatement(stmt, db, strict) ==
    LET kind == stmt[1]
        tgt == Target(stmt)
    IN  CASE kind = "CREATE EXTERNAL TABLE " ->
               IF tgt \in db.tables
               THEN [db |-> db, ok |-> ~strict, missing |-> FALSE, created |-> FALSE]
               ELSE [db |-> [db EXCEPT !.tables = @ \cup {tgt}],
                     ok |-> TRUE, missing |-> FALSE, created |-> TRUE]
          [] kind = "CREATE VIEW " ->
               IF tgt \in db.views
               THEN [db |-> db, ok |-> ~strict, missing |-> FALSE, created |-> FALSE]
               ELSE [db |-> [db EXCEPT !.views = @ \cup {tgt}],
                     ok |-> TRUE, missing |-> FALSE, created |-> FALSE]
          [] kind = "ALTER TABLE " ->
               LET part == <<tgt, PartitionKey(stmt)>>
               IN  IF tgt \notin db.tables
                   THEN [db |-> db, ok |-> FALSE, missing |-> TRUE, created |-> FALSE]
                   ELSE IF part \in db.partitions
                   THEN [db |-> db, ok |-> ~strict, missing |-> FALSE, created |-> FALSE]
                   ELSE [db |-> [db EXCEPT !.partitions = @ \cup {part}],
                         ok |-> TRUE, missing |-> FALSE, created |-> FALSE]
          [] OTHER -> [db |-> db, ok |-> FALSE, missing |-> FALSE, created |-> FALSE]

\* The statements in order, each taking effect at once (autocommit), up to
\* the first that fails.
RECURSIVE RunStatements(_, _, _)
RunStatements(stmts, db, strict) ==
    IF stmts = <<>>
    THEN [db |-> db, ok |-> TRUE, missing |-> FALSE, created |-> FALSE]
    ELSE LET first == RunStatement(Head(stmts), db, strict)
         IN  IF ~first.ok THEN first
             ELSE [RunStatements(Tail(stmts), first.db, strict)
                       EXCEPT !.created = @ \/ first.created]

\* engine.execute(text).  An empty text is an empty query: an error or a
\* no-op, as the driver has it.
Execute(text, db, strict) ==
    IF text = <<>>
    THEN [db |-> db, ok |-> ~strict, missing |-> FALSE, created |-> FALSE]
    ELSE RunStatements(SplitStatements(text), db, strict)

\* pd.read_sql_query(probe): the distinct schemaname || tablename values of
\* SVV_EXTERNAL_COLUMNS that equal the probe's literal.
Query(text, db) ==
    LET key == Delimited(text, SQ, 1)
    IN  Cardinality({t[1] \o t[2] : t \in {u \in db.tables : u[1] \o u[2] = key}})

----------------------------------------------------------------------------
\* to_spectrum, called NumCalls times with the same arguments against one
\* catalog; only the conn argument is chosen per call.

VARIABLES
    args,                   \* the arguments shared by the calls
    catalog,                \* [tables, views, partitions] behind the connection
    pc,                     \* each call's position in to_spectrum
    conn,                   \* whether the call was given a connection string
    columns,                \* the column fragment the call resolved
    partition_statement,    \* the add-partition text the call built
    create_statement,       \* the joined script the call built
    table_exists_data,      \* len() of the probe's result; -1 before the probe
    queried,                \* texts the call passed to pd.read_sql_query
    executed,               \* texts the call passed to engine.execute
    lookups,                \* schema_from_registry calls the call made
    result,                 \* the text the call returned
    prior,                  \* calls with a connection that had ended when this call probed
    createdAtProbe,         \* calls that had passed their create step when this call probed
    registered,             \* the call's CREATE EXTERNAL TABLE added its table to the catalog
    alterMissing            \* an ALTER TABLE of the call ran against an absent table

vars == <<args, catalog, pc, conn, columns, partition_statement,
          create_statement,
          table_exists_data, queried, executed, lookups, result, prior,
          createdAtProbe, registered, alterMissing>>

built == <<partition_statement, create_statement>>

Ended == {"done", "raised"}

ArgSets ==
    [table : {<<"T">>},
     external_schema : {<<"x">>},
     bucket : {<<"B">>},
     df_len : {0, 1},
     schema_alias : {<<>>, <<"a">>},
     stream : {<<>>, <<"S">>},
     file_format : {"parquet", "avro"},
     partition : {<<"P">>},
     partition_type : {<<"date">>},
     partition_value : {<<>>, <<"V">>},
     has_partition : BOOLEAN]

\* The catalog may already hold a table under the logical name, under the
\* suffixed physical name, both, or neither.
InitialTables(a) ==
    SUBSET {<<a.external_schema, a.table>>,
            <<a.external_schema, a.table \o <<"_", "parquet">>>>}

Init ==
    /\ args \in ArgSets
    /\ \E tables \in InitialTables(args) :
           catalog = [tables |-> tables, views |-> {}, partitions |-> {}]
    /\ pc = [c \in Calls |-> "idle"]
    /\ conn = [c \in Calls |-> FALSE]
    /\ columns = [c \in Calls |-> <<>>]
    /\ partition_statement = [c \in Calls |-> <<>>]
    /\ create_statement = [c \in Calls |-> <<>>]
    /\ table_exists_data = [c \in Calls |-> -1]
    /\ queried = [c \in Calls |-> <<>>]
    /\ executed = [c \in Calls |-> <<>>]
    /\ lookups = [c \in Calls |-> 0]
    /\ result = [c \in Calls |-> <<>>]
    /\ prior = [c \in Calls |-> {}]
    /\ createdAtProbe = [c \in Calls |-> {}]
    /\ registered = [c \in Calls |-> FALSE]
    /\ alterMissing = [c \in Calls |-> FALSE]

\* stream = stream if stream else table
Stream == IF args.stream # <<>> THEN args.stream ELSE args.table

\* The statements of one call, built and joined (lines 162-195).
BuildStatements(cols) ==
    LET ext == create_external_table_statement(
                   args.external_schema, args.table, cols, args.bucket, Stream,
                   args.file_format, args.partition, args.partition_type,
                   args.has_partition)
        alias == IF args.schema_alias = <<>> THEN <<>>
                 ELSE create_schema_alias_statement(
                          args.schema_alias, args.external_schema, args.table)
        part == IF args.has_partition
                THEN create_partition_statement(
                         args.external_schema, args.bucket, Stream, "parquet",
                         args.partition,
                         IF args.partition_value # <<>>
                         THEN args.partition_value ELSE Today)
                ELSE <<>>
    IN  [partition_statement |-> part,
         create_statement |-> JoinStatements(ext, alias, part)]

\* The caller invokes to_spectrum, with or without conn; the call runs up to
\* its first use of the connection.
\*   columns = schema_from_df(df) if len(df) != 0 else schema_from_registry(stream)
\* (the registry lookup fails for a stream it does not know); then the
\* statements are built, the serde lookup inside
\* _create_external_table_statement raising for an unknown file_format;
\* without conn the call returns the script.
Call(c) ==
    /\ pc[c] = "idle"
    /\ lookups' = [lookups EXCEPT ![c] = IF args.df_len # 0 THEN @ ELSE @ + 1]
    /\ \E given \in BOOLEAN, known \in BOOLEAN :
           /\ conn' = [conn EXCEPT ![c] = given]
           /\ IF args.df_len = 0 /\ ~known
              THEN /\ pc' = [pc EXCEPT ![c] = "raised"]
                   /\ UNCHANGED <<columns, built, result>>
              ELSE \E cols \in {IF args.df_len # 0 THEN <<"df_columns">>
                                ELSE <<"registry_columns">>} :
                     /\ columns' = [columns EXCEPT ![c] = cols]
                     /\ IF ~get_file_format_serde(args.file_format).ok
                        THEN /\ pc' = [pc EXCEPT ![c] = "raised"]
                             /\ UNCHANGED <<built, result>>
                        ELSE \E b \in {BuildStatements(cols)} :
                               /\ partition_statement' =
                                      [partition_statement EXCEPT
                                           ![c] = b.partition_statement]
                               /\ create_statement' =
                                      [create_statement EXCEPT
                                           ![c] = b.create_statement]
                               /\ IF given
                                  THEN /\ pc' = [pc EXCEPT ![c] = "probe"]
                                       /\ UNCHANGED result
                                  ELSE /\ pc' = [pc EXCEPT ![c] = "done"]
                                       /\ result' = [result EXCEPT
                                                         ![c] = b.create_statement]
    /\ UNCHANGED <<args, catalog, table_exists_data, queried, executed, prior,
                   createdAtProbe, registered, alterMissing>>

\* As ShouldCreate, the probe result ignored.
CreateAlways(rows) == TRUE

\* As ShouldCreate, the comparison inverted.
CreateWhenPresent(rows) == rows # 0

\* len(table_exists_data) == 0
ShouldCreate(rows) == rows = 0

\* table_exists_data = pd.read_sql_query(schema_table_statement, conn)
Probe(c) ==
    /\ pc[c] = "probe"
    /\ \E schema_table_statement \in
              {external_table_exists_statement(args.external_schema, args.table)} :
       \E rows \in {Query(schema_table_statement, catalog)} :
           /\ queried' = [queried EXCEPT ![c] = Append(@, schema_table_statement)]
           /\ table_exists_data' = [table_exists_data EXCEPT ![c] = rows]
           /\ pc' = [pc EXCEPT ![c] =
                         IF ShouldCreate(rows) THEN "create" ELSE "partition"]
    /\ prior' = [prior EXCEPT ![c] = {d \in Calls : conn[d] /\ pc[d] \in Ended}]
    /\ createdAtProbe' = [createdAtProbe EXCEPT ![c] =
                              {d \in Calls : Len(executed[d]) > 0}]
    /\ UNCHANGED <<args, catalog, conn, columns, built, executed, lookups,
                   result, registered, alterMissing>>

\* engine.execute(create_statement)
ExecCreate(c) ==
    /\ pc[c] = "create"
    /\ \E strict \in BOOLEAN :
           \E out \in {Execute(create_statement[c], catalog, strict)} :
               /\ catalog' = out.db
               /\ registered' = [registered EXCEPT ![c] = out.created]
               /\ alterMissing' = [alterMissing EXCEPT ![c] = @ \/ out.missing]
               /\ pc' = [pc EXCEPT ![c] = IF out.ok THEN "partition" ELSE "raised"]
    /\ executed' = [executed EXCEPT ![c] = Append(@, create_statement[c])]
    /\ UNCHANGED <<args, conn, columns, built, table_exists_data, queried,
                   lookups, result, prior, createdAtProbe>>

\* engine.execute(partition_statement); return create_statement
ExecPartition(c) ==
    /\ pc[c] = "partition"
    /\ \E strict \in BOOLEAN :
           \E out \in {Execute(partition_statement[c], catalog, strict)} :
               /\ catalog' = out.db
               /\ alterMissing' = [alterMissing EXCEPT ![c] = @ \/ out.missing]
               /\ IF out.ok
                  THEN /\ pc' = [pc EXCEPT ![c] = "done"]
                       /\ result' = [result EXCEPT ![c] = create_statement[c]]
                  ELSE /\ pc' = [pc EXCEPT ![c] = "raised"]
                       /\ UNCHANGED result
    /\ executed' = [executed EXCEPT ![c] = Append(@, partition_statement[c])]
    /\ UNCHANGED <<args, conn, columns, built, table_exists_data, queried,
                   lookups, prior, createdAtProbe, registered>>

Next ==
    \E c \in Calls :
        \/ Call(c)
        \/ Probe(c)
        \/ ExecCreate(c)
        \/ ExecPartition(c)

Spec == Init /\ [][Next]_vars

----------------------------------------------------------------------------
\* Vocabulary of the properties.

Count(text, tok) == Cardinality({i \in 1..Len(text) : text[i] = tok})

IsInfix(sub, text) ==
    \E i \in 0..(Len(text) - Len(sub)) : SubSeq(text, i + 1, i + Len(sub)) = sub

\* How many of the texts the call passed to execute hold the token.
SentCount(c, tok) ==
    Cardinality({i \in 1..Len(executed[c]) : Count(executed[c][i], tok) > 0})

CreateSent(c) == SentCount(c, "CREATE EXTERNAL TABLE ") > 0

AddPartitionSent(c) ==
    \E i \in 1..Len(executed[c]) :
        /\ Count(executed[c][i], "ALTER TABLE ") > 0
        /\ Count(executed[c][i], "ADD PARTITION (") > 0

\* Call d first used the connection after call c had returned, both with a
\* connection: the two are consecutive as the catalog sees them.
Consecutive(c, d) ==
    /\ c \in prior[d]
    /\ pc[c] = "done" /\ pc[d] = "done"
    /\ conn[c] /\ conn[d]

\* The text a statement gives as LOCATION '<text>'.
Location(stmt) ==
    LET i == CHOOSE k \in 1..Len(stmt) : stmt[k] = "LOCATION " /\ stmt[k + 1] = SQ
        j == CHOOSE k \in (i + 2)..Len(stmt) :
                 stmt[k] = SQ /\ \A m \in (i + 2)..(k - 1) : stmt[m] # SQ
    IN  SubSeq(stmt, i + 2, j - 1)

UpperChars == {"B", "P", "S", "T", "V", "X"}

PartitionValue ==
    IF args.partition_value # <<>> THEN args.partition_value ELSE Today

\* s3://<bucket>/<stream>/ext=<format>/ lower-cased, as the claims word it.
RootLocation ==
    Lower(<<"s3://">> \o args.bucket \o <<"/">> \o Stream
              \o <<"/", "ext=", args.file_format, "/">>)

----------------------------------------------------------------------------
\* C1 (as stated): of two consecutive calls with the same inputs and a
\* connection, when the probe of the second returns at least one row the
\* second sends no CREATE EXTERNAL TABLE, and the add-partition statement is
\* executed in both calls.
C1_AsStated ==
    \A c, d \in Calls :
        (Consecutive(c, d) /\ table_exists_data[d] > 0) =>
            /\ ~CreateSent(d)
            /\ AddPartitionSent(c)
            /\ AddPartitionSent(d)

\* C1 (amended): as above, the add-partition statement being executed in
\* both calls when has_partition is true.
C1_SkipCreateKeepPartition ==
    \A c, d \in Calls :
        (Consecutive(c, d) /\ table_exists_data[d] > 0) =>
            /\ ~CreateSent(d)
            /\ args.has_partition => (AddPartitionSent(c) /\ AddPartitionSent(d))

C1_Witness ==
    \E c, d \in Calls :
        /\ Consecutive(c, d)
        /\ table_exists_data[d] > 0
        /\ args.has_partition
        /\ Len(executed[c]) > 0 /\ Len(executed[d]) = 1

\* C2: with a connection and a probe of zero rows, the first text executed
\* is the create-table-and-alias text, without the add-partition statement,
\* and the add-partition statement reaches the catalog exactly once in the call.
C2_PartitionSentOnce ==
    \A c \in Calls :
        (conn[c] /\ table_exists_data[c] = 0 /\ Len(executed[c]) >= 1) =>
            /\ executed[c][1] \o partition_statement[c] = create_statement[c]
            /\ Count(executed[c][1], "ALTER TABLE ") = 0
            /\ (args.has_partition /\ pc[c] = "done") =>
                   SentCount(c, "ALTER TABLE ") = 1

\* C3: once a call has registered its table in the catalog through CREATE
\* EXTERNAL TABLE, a later call with the same inputs finds the table present
\* through the probe and sends no CREATE EXTERNAL TABLE.
C3_CreateIdempotent ==
    \A c, d \in Calls :
        (c \in prior[d] /\ registered[c] /\ conn[d] /\ table_exists_data[d] # -1) =>
            /\ table_exists_data[d] > 0
            /\ ~CreateSent(d)

\* C4: whenever a call runs ALTER TABLE ... ADD PARTITION, the table the
\* statement names is in the catalog.
C4_TableBeforePartition ==
    \A c \in Calls : ~alterMissing[c]

\* The statement kinds of a script, in order, against the arguments.
C5_ScriptShape(text) ==
    LET stmts == SplitStatements(text)
    IN  [i \in 1..Len(stmts) |-> stmts[i][1]] =
            <<"CREATE EXTERNAL TABLE ">>
                \o (IF args.schema_alias # <<>> THEN <<"CREATE VIEW ">> ELSE <<>>)
                \o (IF args.has_partition THEN <<"ALTER TABLE ">> ELSE <<>>)

C5_State ==
    /\ \A c \in Calls : ~conn[c] => (queried[c] = <<>> /\ executed[c] = <<>>)
    /\ \A c \in Calls : pc[c] = "done" => C5_ScriptShape(result[c])
    /\ \A c, d \in Calls :
           (pc[c] = "done" /\ pc[d] = "done") => result[c] = result[d]

C5_Step ==
    \A c \in Calls : (pc'[c] # pc[c] /\ ~conn'[c]) => catalog' = catalog

\* C5: a call without a connection probes nothing, executes nothing and
\* leaves the catalog as it is; every returned script is the create-table,
\* alias-view and add-partition statements in that order, and is the same
\* text with and without a connection.
C5_NoConnectionPure == [](C5_State) /\ [][C5_Step]_vars

C5_Witness ==
    \E c, d \in Calls :
        /\ ~conn[c] /\ conn[d]
        /\ pc[c] = "done" /\ pc[d] = "done"
        /\ args.has_partition /\ args.schema_alias # <<>>
        /\ catalog.tables # {} /\ catalog.partitions # {}

\* C6: a call with a file_format outside the serde mapping fails before any
\* registry lookup, probe or execute and before any statement text is built
\* or returned.
C6_FailBeforeIO ==
    \A c \in Calls :
        args.file_format \notin SerdeKeys =>
            /\ lookups[c] = 0
            /\ queried[c] = <<>> /\ executed[c] = <<>>
            /\ create_statement[c] = <<>> /\ partition_statement[c] = <<>>
            /\ pc[c] # "done"

\* C7: the returned script holds no PARTITIONED BY clause and no ALTER TABLE
\* ... ADD PARTITION statement when has_partition is false, and exactly one
\* of each when it is true.
C7_PartitionClauses ==
    \A c \in Calls :
        pc[c] = "done" =>
            LET n == IF args.has_partition THEN 1 ELSE 0
            IN  /\ Count(result[c], "PARTITIONED BY (") = n
                /\ Count(result[c], "ALTER TABLE ") = n
                /\ Count(result[c], "ADD PARTITION (") = n

C7_Witness ==
    \E c \in Calls : pc[c] = "done" /\ conn[c] /\ ~args.has_partition

\* C8: for a call that returns, the probe compares against '<schema><table>',
\* the create statement targets "<schema>"."<table>_<format>" at the
\* lower-cased root location, and the partition statement targets
\* "<schema>"."<stream>_<format>" at the root location followed by the
\* lower-cased '<partition>=<partition_value>/'.
C8_NamesAndLocations ==
    \A c \in Calls :
        pc[c] = "done" =>
            \E root \in {RootLocation}, script \in {result[c]} :
                /\ conn[c] => Len(queried[c]) = 1
                /\ \A i \in 1..Len(queried[c]) :
                       /\ Count(queried[c][i], SQ) = 2
                       /\ Delimited(queried[c][i], SQ, 1) =
                              args.external_schema \o args.table
                /\ script[1] = "CREATE EXTERNAL TABLE "
                /\ Target(script) =
                       <<args.external_schema,
                         args.table \o <<"_", args.file_format>>>>
                /\ Location(script) = root
                /\ \A i \in 1..Len(root) : root[i] \notin UpperChars
                /\ args.has_partition =>
                       \E alter \in {partition_statement[c]} :
                       \E loc \in {Location(alter)} :
                           /\ SubSeq(script, Len(script) - Len(alter) + 1,
                                     Len(script)) = alter
                           /\ alter[1] = "ALTER TABLE "
                           /\ Target(alter) =
                                  <<args.external_schema,
                                    Stream \o <<"_", args.file_format>>>>
                           /\ loc = root \o Lower(args.partition \o <<"=">>
                                                      \o PartitionValue \o <<"/">>)
                           /\ \A i \in 1..Len(loc) : loc[i] \notin UpperChars

C8_Witness ==
    \E c \in Calls :
        /\ pc[c] = "done" /\ conn[c]
        /\ args.has_partition /\ args.partition_value # <<>>

\* C9: a call that observed zero rows executes CREATE EXTERNAL TABLE whatever
\* the catalog has become since its probe, so two calls that both probe
\* before either creates both execute it.
C9_CreateFollowsOwnProbe ==
    \A c \in Calls :
        (conn[c] /\ table_exists_data[c] = 0 /\ pc[c] # "create") =>
            /\ Len(executed[c]) >= 1
            /\ Count(executed[c][1], "CREATE EXTERNAL TABLE ") = 1

C9_Witness ==
    \E c, d \in Calls :
        /\ c # d
        /\ table_exists_data[c] = 0 /\ table_exists_data[d] = 0
        /\ createdAtProbe[c] = {} /\ createdAtProbe[d] = {}
        /\ CreateSent(c) /\ CreateSent(d)
        /\ registered[c]

\* C10: every text passed to execute is a non-empty statement.
C10_NoEmptyExecute ==
    \A c \in Calls : \A i \in 1..Len(executed[c]) : executed[c][i] # <<>>

====
